---------------------------- MODULE Spec2Model ----------------------------
(***************************************************************************)
(* Model of the transport and credential core of purview-api-guide:        *)
(*   - BaseHTTPClient._request_with_retry  (src/clients/base_client.py)    *)
(*   - BaseHTTPClient.__init__ and _headers      (src/clients/base_client.py) *)
(*   - get_access_token and its module-level cache (src/clients/auth.py)   *)
(*   - safe_api_call        (src/examples/advanced/03_error_handling.py)   *)
(*                                                                         *)
(* Times are fixed-point numbers: one second is Scale units, where Scale   *)
(* is a power of ten large enough that every product by 1.7 a call can     *)
(* perform is exact.  Python floats are modelled by these exact values.    *)
(***************************************************************************)
EXTENDS Integers, Sequences, FiniteSets, TLC

VARIABLES
    max_retries,      \* self.max_retries, set by the constructor
    pc,               \* position of the one call in flight on the executor
    attempt,          \* loop variable of `for attempt in range(...)`
    backoff,          \* local `backoff`, fixed point
    last_exception,   \* local `last_exception`
    response,         \* local `response` (unbound until the first response)
    wait_time,        \* argument of the pending time.sleep
    requests,         \* number of session.request calls issued by this call
    sleeps,           \* the time.sleep calls completed by this call, in order
    answers,          \* what the transport answered to each request, in order
    result,           \* what the call gave its caller
    previous,         \* where the executor stood when the call started
    \* ---- base_client.py: the client object and the arguments of the call
    ctor,             \* the constructor call: its arguments and how it ended
    base_url,         \* self.base_url
    access_token,     \* self.access_token
    timeout,          \* self.timeout
    path,             \* argument `path` of the call
    extra,            \* argument `headers` of the call (`extra` in _headers)
    url,              \* local `url`
    headers,          \* local `headers` after self._headers(headers)
    \* ---- auth.py: module globals, environment and clock
    cached_token,     \* _cached_token (NoToken is None)
    token_expires_at, \* _token_expires_at, seconds
    env,              \* the required variables that are set in os.environ
    clock,            \* time.time(), seconds
    \* ---- auth.py: one get_access_token call per thread
    tpc,              \* position of each caller in get_access_token
    force_refresh,    \* argument force_refresh of each caller
    now,              \* local `now` of each caller
    seen_token,       \* _cached_token as read by the check of line 58
    seen_expiry,      \* _token_expires_at as read by the check of line 58
    token_data,       \* local `token_data` of each caller
    out,              \* what each caller's call gave it
    issued,           \* issued[k]: the expiry stored with token k by its exchange
    lifetimes,        \* lifetimes[k]: the expires_in that came with token k
    nexchanges,       \* requests.post calls answered or failed so far
    ncalls,           \* get_access_token calls started
    late_entry,       \* some call started after another call had finished
    \* ---- 03_error_handling.py: one safe_api_call
    spc,              \* position of the safe_api_call in flight
    wrapped,          \* what `func` is: a client method or a bare HTTP call
    sa_max_retries,   \* argument max_retries of safe_api_call
    sa_attempt,       \* local `attempt` of safe_api_call
    invocations,      \* number of func(*args, **kwargs) calls made
    sa_sleeps,        \* the time.sleep calls of safe_api_call, in order
    func_result,      \* what the last invocation of func gave
    sa_out            \* what safe_api_call gave its caller

reqvars == <<ctor, base_url, access_token, timeout, path, extra, url, headers>>

execvars == <<max_retries, pc, attempt, backoff, last_exception, response,
              wait_time, requests, sleeps, answers, result, previous, reqvars>>

safevars == <<spc, wrapped, sa_max_retries, sa_attempt, invocations, sa_sleeps,
              func_result, sa_out>>

authvars == <<cached_token, token_expires_at, env, clock, tpc, force_refresh, now,
              seen_token, seen_expiry, token_data, out, issued, lifetimes,
              nexchanges, ncalls, late_entry>>

vars == <<execvars, authvars, safevars>>

---------------------------------------------------------------------------
(* Bounds of the model *)

MaxRetriesBound == 2

NumThreads == 2

MaxCalls == 3

MaxTicks == 2

---------------------------------------------------------------------------
(* Arithmetic *)

RECURSIVE Pow(_, _)
Pow(b, n) == IF n <= 0 THEN 1 ELSE b * Pow(b, n - 1)

Scale == Pow(10, MaxRetriesBound)

Seconds(n) == n * Scale

InitialBackoff == Seconds(2)

MultiplyBackoffShrink(b) == (b * 7) \div 10

MultiplyBackoffDouble(b) == b * 2

MultiplyBackoff(b) == (b * 17) \div 10

---------------------------------------------------------------------------
(* Responses, headers and exceptions *)

None == [some |-> FALSE]
Some(v) == [some |-> TRUE, v |-> v]

Digits == {"0", "1", "2", "3", "4", "5", "6", "7", "8", "9"}

DigitValue(c) ==
    CASE c = "0" -> 0 [] c = "1" -> 1 [] c = "2" -> 2 [] c = "3" -> 3
      [] c = "4" -> 4 [] c = "5" -> 5 [] c = "6" -> 6 [] c = "7" -> 7
      [] c = "8" -> 8 [] c = "9" -> 9

IsDigit(s) == Len(s) > 0 /\ \A i \in 1..Len(s) : s[i] \in Digits

RECURSIVE ParseInt(_)
ParseInt(s) ==
    IF Len(s) = 0 THEN 0
    ELSE 10 * ParseInt(SubSeq(s, 1, Len(s) - 1)) + DigitValue(s[Len(s)])

Truthy(h) == h.some /\ Len(h.v) > 0

RetryAfterValues ==
    { None, Some(<<>>), Some(<<"5">>), Some(<<"1", "0">>),
      Some(<<"1", ".", "5">>) }

RetryableStatuses == {429, 500, 502, 503, 504}

Statuses == {200, 304, 400, 401, 403, 404, 429, 500, 501, 502, 503, 504}

IsHTTPErrorStatus(s) == s >= 400 /\ s < 600

BodyTexts == { [id |-> "short", len |-> 10], [id |-> "long", len |-> 300] }

ExcerptLen == 200

Excerpt(text) ==
    [id |-> text.id, len |-> IF text.len < ExcerptLen THEN text.len ELSE ExcerptLen]

NoText == [id |-> "none", len |-> 0]

Unbound == [bound |-> FALSE]

Responses ==
    [bound : {TRUE}, status : Statuses, retry_after : RetryAfterValues,
     text : BodyTexts]

NoStatus == 0

NetworkExceptions ==
    { [type |-> "ConnectionError", status |-> NoStatus],
      [type |-> "Timeout", status |-> NoStatus] }

StatusError(r) == [type |-> "HTTPError", status |-> r.status]

UsesRetryAfter(r) == Truthy(r.retry_after) /\ IsDigit(r.retry_after.v)

WaitTime(r, b) ==
    IF UsesRetryAfter(r)
    THEN Seconds(ParseInt(r.retry_after.v))
    ELSE b

(* The log keeps the class of each answer of the transport. *)
AnswerClass(s) ==
    IF s \in RetryableStatuses THEN "retryable"
    ELSE IF IsHTTPErrorStatus(s) THEN "error"
    ELSE "success"

---------------------------------------------------------------------------
(* Strings are sequences of characters; URLs and header dictionaries *)

StartsWith(s, prefix) ==
    /\ Len(s) >= Len(prefix)
    /\ SubSeq(s, 1, Len(prefix)) = prefix

RECURSIVE RStripSlashes(_)
RStripSlashes(s) ==
    IF Len(s) > 0 /\ s[Len(s)] = "/"
    THEN RStripSlashes(SubSeq(s, 1, Len(s) - 1))
    ELSE s

BuildUrl(base, p) ==
    IF StartsWith(p, <<"h", "t", "t", "p">>) THEN p
    ELSE IF StartsWith(p, <<"/">>) THEN base \o p
    ELSE base \o <<"/">> \o p

DefaultTimeout == 120

Paths ==
    { <<"a">>, <<"/", "a">>, <<"/", "/", "a">>, <<>>,
      <<"h", "t", "t", "p", ":", "/", "/", "x">>,
      <<"h", "t", "t", "p", "a">> }

(* a dictionary is a function from header names to values *)
NoHeaders == [n \in {} |-> <<>>]

OneHeader(name, value) == [n \in {name} |-> value]

Update(d, e) ==
    [n \in (DOMAIN d) \cup (DOMAIN e) |-> IF n \in DOMAIN e THEN e[n] ELSE d[n]]

InjectedHeaders(tok) ==
    Update(OneHeader("Authorization", <<"Bearer ">> \o tok),
           OneHeader("Content-Type", <<"application/json">>))

HeadersInjectedLast(tok, e) ==
    IF e.some /\ DOMAIN e.v # {} THEN Update(e.v, InjectedHeaders(tok))
    ELSE InjectedHeaders(tok)

Headers(tok, e) ==
    IF e.some /\ DOMAIN e.v # {} THEN Update(InjectedHeaders(tok), e.v)
    ELSE InjectedHeaders(tok)

ExtraHeaders ==
    { None, Some(NoHeaders),
      Some(OneHeader("Authorization", <<"Basic x">>)),
      Some(Update(OneHeader("Content-Type", <<"text/plain">>),
                  OneHeader("X-Trace", <<"1">>))) }

DefaultBaseUrl == <<"b">>

DefaultToken == <<"t">>

DefaultPath == <<"/", "a">>

(* how the call before the current one ended and the attempt index it had  *)
(* reached                                                                  *)
Earlier(at, n) == [ended |-> at, attempt |-> n]

NoEarlierCall == Earlier("idle", 0)

(* the constructor call: how it ended and the arguments it was given *)
NoClient ==
    [state |-> "none", error |-> "", base_url |-> <<>>, access_token |-> <<>>,
     max_retries |-> 0, timeout |-> 0]

Constructed(b, tok, mr, to) ==
    [state |-> "ok", error |-> "", base_url |-> b, access_token |-> tok,
     max_retries |-> mr, timeout |-> to]

ValueError(what, b, tok, mr, to) ==
    [state |-> "raised", error |-> what, base_url |-> b, access_token |-> tok,
     max_retries |-> mr, timeout |-> to]

(* the argument lists BaseHTTPClient(...) is called with: an empty base, an *)
(* empty token, bases with and without trailing slashes, a base of slashes  *)
(* only, two tokens, with and without retries                               *)
ConstructorArgs ==
    { << <<>>, <<"t">>, 0, 30 >>,
      << <<"b">>, <<>>, 0, 30 >>,
      << <<>>, <<>>, 0, DefaultTimeout >>,
      << <<"b">>, <<"u">>, 0, 30 >>,
      << <<"b", "/">>, <<"t">>, 1, DefaultTimeout >>,
      << <<"b", "/", "/">>, <<"u">>, 0, DefaultTimeout >>,
      << <<"/">>, <<"t">>, 0, 30 >> }

---------------------------------------------------------------------------
(* Outcomes of a call *)

NoResult == [kind |-> "none"]

Returned(r) == [kind |-> "returned", response |-> r]

RaisedExhaustedException(n, e) ==
    [kind |-> "raised", type |-> "HTTPError", attempts |-> n,
     status |-> e.status, excerpt |-> NoText, cause |-> Some(e)]

RaisedExhaustedStatus(n, r) ==
    [kind |-> "raised", type |-> "HTTPError", attempts |-> n,
     status |-> r.status, excerpt |-> Excerpt(r.text), cause |-> None]

RaisedUnboundLocal ==
    [kind |-> "raised", type |-> "UnboundLocalError", attempts |-> 0,
     status |-> NoStatus, excerpt |-> NoText, cause |-> None]

Terminal == {"returned", "raised"}

---------------------------------------------------------------------------
(* The token cache of auth.py: values *)

Threads == 1..NumThreads

Secrets == {"TENANT_ID", "CLIENT_ID", "CLIENT_SECRET"}

NoToken == 0

RefreshMargin == 120

DefaultExpiresIn == 3600

TickSteps == {10}

MaxClock == 10 * MaxTicks

NotRead == -1

(* The expires_in field of a token response: absent, an integer, or a value *)
(* int() rejects.                                                           *)
ExpiresInFields ==
    { [given |-> "absent", v |-> 0], [given |-> "int", v |-> 120],
      [given |-> "int", v |-> 130], [given |-> "invalid", v |-> 0] }

TokenResponseKinds == {"ok", "http_error", "no_access_token", "network_error"}

NoTokenData == [access_token |-> NoToken, expires_in |-> [given |-> "absent", v |-> 0]]

ExpiresInNoDefault(field) == IF field.given = "absent" THEN 0 ELSE field.v

ExpiresIn(field) == IF field.given = "absent" THEN DefaultExpiresIn ELSE field.v

IsFreshHalfMargin(n, tok, exp) == tok # NoToken /\ n < exp - (RefreshMargin \div 2)

IsFreshBoundaryInclusive(n, tok, exp) == tok # NoToken /\ n <= exp - RefreshMargin

IsFreshNoMargin(n, tok, exp) == tok # NoToken /\ n < exp

IsFreshReversed(n, tok, exp) == tok # NoToken /\ n > exp - RefreshMargin

IsFresh(n, tok, exp) == tok # NoToken /\ n < exp - RefreshMargin

MissingSecretsForgetsSecret == {"TENANT_ID", "CLIENT_ID"} \ env

MissingSecrets == Secrets \ env

NoOutcome == [kind |-> "none", token |-> NoToken, error |-> "none", missing |-> {}]

ReturnedToken(tok) ==
    [kind |-> "returned", token |-> tok, error |-> "none", missing |-> {}]

RaisedError(type) ==
    [kind |-> "raised", token |-> NoToken, error |-> type, missing |-> {}]

RaisedMissing(m) ==
    [kind |-> "raised", token |-> NoToken, error |-> "ValueError:missing_env", missing |-> m]

AuthIdle(e) ==
    /\ cached_token = NoToken
    /\ token_expires_at = 0
    /\ env = e
    /\ clock = 0
    /\ tpc = [t \in Threads |-> "idle"]
    /\ force_refresh = [t \in Threads |-> FALSE]
    /\ now = [t \in Threads |-> 0]
    /\ seen_token = [t \in Threads |-> NoToken]
    /\ seen_expiry = [t \in Threads |-> NotRead]
    /\ token_data = [t \in Threads |-> NoTokenData]
    /\ out = [t \in Threads |-> NoOutcome]
    /\ issued = <<>>
    /\ lifetimes = <<>>
    /\ nexchanges = 0
    /\ ncalls = 0
    /\ late_entry = FALSE

---------------------------------------------------------------------------
(* The executor *)

ExecutorIdle(mr) ==
    /\ max_retries = mr
    /\ pc = "idle"
    /\ attempt = 0
    /\ backoff = InitialBackoff
    /\ last_exception = None
    /\ response = Unbound
    /\ wait_time = 0
    /\ requests = 0
    /\ sleeps = <<>>
    /\ answers = <<>>
    /\ result = NoResult
    /\ previous = NoEarlierCall
    /\ path = DefaultPath
    /\ extra = None
    /\ url = <<>>
    /\ headers = NoHeaders

(* a client built by BaseHTTPClient(DefaultBaseUrl, DefaultToken, ...) *)
ClientReady ==
    /\ ctor = Constructed(DefaultBaseUrl, DefaultToken, max_retries,
                          DefaultTimeout)
    /\ base_url = RStripSlashes(DefaultBaseUrl)
    /\ access_token = DefaultToken
    /\ timeout = DefaultTimeout

SafeIdle ==
    /\ spc = "idle"
    /\ wrapped = "none"
    /\ sa_max_retries = 0
    /\ sa_attempt = 0
    /\ invocations = 0
    /\ sa_sleeps = <<>>
    /\ func_result = NoResult
    /\ sa_out = NoResult

Init ==
    /\ \E mr \in -1..MaxRetriesBound : ExecutorIdle(mr)
    /\ ClientReady
    /\ AuthIdle(Secrets)
    /\ SafeIdle

ExecuteAdoptsAbsoluteUrl(p, x) ==
    /\ ctor.state = "ok"
    /\ pc \in {"idle"} \cup Terminal
    /\ path' = p
    /\ extra' = x
    /\ url' = BuildUrl(base_url, p)
    /\ headers' = Headers(access_token, x)
    /\ previous' = Earlier(pc, attempt)
    /\ backoff' = InitialBackoff
    /\ last_exception' = None
    /\ response' = Unbound
    /\ attempt' = 0
    /\ wait_time' = 0
    /\ requests' = 0
    /\ sleeps' = <<>>
    /\ answers' = <<>>
    /\ result' = NoResult
    /\ pc' = IF max_retries + 1 > 0 THEN "sending" ELSE "exhausted"
    /\ base_url' = IF StartsWith(p, <<"h", "t", "t", "p">>) THEN p ELSE base_url
    /\ UNCHANGED <<max_retries, ctor, access_token, timeout>>
    /\ UNCHANGED <<authvars, safevars>>

ExecuteKeepsRetryState(p, x) ==
    /\ ctor.state = "ok"
    /\ pc \in {"idle"} \cup Terminal
    /\ path' = p
    /\ extra' = x
    /\ url' = BuildUrl(base_url, p)
    /\ headers' = Headers(access_token, x)
    /\ previous' = Earlier(pc, attempt)
    /\ backoff' = IF pc = "idle" THEN InitialBackoff ELSE backoff
    /\ last_exception' = last_exception
    /\ response' = Unbound
    /\ attempt' = 0
    /\ wait_time' = 0
    /\ requests' = 0
    /\ sleeps' = <<>>
    /\ answers' = <<>>
    /\ result' = NoResult
    /\ pc' = IF max_retries + 1 > 0 THEN "sending" ELSE "exhausted"
    /\ UNCHANGED <<max_retries, ctor, base_url, access_token, timeout>>
    /\ UNCHANGED <<authvars, safevars>>

(* lines 110-121: the request is built once, before the loop *)
BeginCall(p, x) ==
    /\ ctor.state = "ok"
    /\ pc \in {"idle"} \cup Terminal
    /\ path' = p
    /\ extra' = x
    /\ url' = BuildUrl(base_url, p)
    /\ headers' = Headers(access_token, x)
    /\ previous' = Earlier(pc, attempt)
    /\ backoff' = InitialBackoff
    /\ last_exception' = None
    /\ response' = Unbound
    /\ attempt' = 0
    /\ wait_time' = 0
    /\ requests' = 0
    /\ sleeps' = <<>>
    /\ answers' = <<>>
    /\ result' = NoResult
    /\ pc' = IF max_retries + 1 > 0 THEN "sending" ELSE "exhausted"
    /\ UNCHANGED <<max_retries, ctor, base_url, access_token, timeout>>

(* a call made by the program itself *)
Execute(p, x) ==
    /\ BeginCall(p, x)
    /\ UNCHANGED <<authvars, safevars>>

(* the same request again *)
Call == Execute(path, extra)

HandleRequestExceptionKeepsFirst(e) ==
    /\ last_exception' = IF last_exception.some THEN last_exception ELSE Some(e)
    /\ IF attempt < max_retries
       THEN /\ wait_time' = backoff
            /\ pc' = "sleep_exception"
       ELSE /\ wait_time' = wait_time
            /\ pc' = "exhausted"
    /\ result' = result

HandleRequestExceptionOffByOne(e) ==
    /\ last_exception' = Some(e)
    /\ IF attempt <= max_retries
       THEN /\ wait_time' = backoff
            /\ pc' = "sleep_exception"
       ELSE /\ wait_time' = wait_time
            /\ pc' = "exhausted"
    /\ result' = result

HandleRequestException(e) ==
    /\ last_exception' = Some(e)
    /\ IF attempt < max_retries
       THEN /\ wait_time' = backoff
            /\ pc' = "sleep_exception"
       ELSE /\ wait_time' = wait_time
            /\ pc' = "exhausted"
    /\ result' = result

CheckStatusLeaksException(r) ==
    IF r.status \in RetryableStatuses /\ attempt < max_retries
    THEN /\ wait_time' = WaitTime(r, backoff)
         /\ pc' = "sleep_status"
         /\ UNCHANGED <<last_exception, result>>
    ELSE IF IsHTTPErrorStatus(r.status)
         THEN HandleRequestException(StatusError(r))
         ELSE IF last_exception.some
              THEN /\ pc' = "exhausted"
                   /\ UNCHANGED <<last_exception, wait_time, result>>
              ELSE /\ pc' = "returned"
                   /\ result' = Returned(r)
                   /\ UNCHANGED <<last_exception, wait_time>>

CheckStatusOffByOne(r) ==
    IF r.status \in RetryableStatuses /\ attempt + 1 < max_retries
    THEN /\ wait_time' = WaitTime(r, backoff)
         /\ pc' = "sleep_status"
         /\ UNCHANGED <<last_exception, result>>
    ELSE IF IsHTTPErrorStatus(r.status)
         THEN HandleRequestException(StatusError(r))
         ELSE /\ pc' = "returned"
              /\ result' = Returned(r)
              /\ UNCHANGED <<last_exception, wait_time>>

CheckStatusNoRaise(r) ==
    IF r.status \in RetryableStatuses /\ attempt < max_retries
    THEN /\ wait_time' = WaitTime(r, backoff)
         /\ pc' = "sleep_status"
         /\ UNCHANGED <<last_exception, result>>
    ELSE /\ pc' = "returned"
         /\ result' = Returned(r)
         /\ UNCHANGED <<last_exception, wait_time>>

CheckStatus(r) ==
    IF r.status \in RetryableStatuses /\ attempt < max_retries
    THEN /\ wait_time' = WaitTime(r, backoff)
         /\ pc' = "sleep_status"
         /\ UNCHANGED <<last_exception, result>>
    ELSE IF IsHTTPErrorStatus(r.status)
         THEN HandleRequestException(StatusError(r))
         ELSE /\ pc' = "returned"
              /\ result' = Returned(r)
              /\ UNCHANGED <<last_exception, wait_time>>

ReceiveResponse ==
    /\ pc = "sending"
    /\ \E r \in Responses :
          /\ response' = r
          /\ CheckStatus(r)
          /\ answers' = Append(answers, AnswerClass(r.status))
    /\ requests' = requests + 1
    /\ UNCHANGED <<reqvars, previous, max_retries, attempt, backoff, sleeps>>
    /\ UNCHANGED <<authvars, safevars>>

RequestFails ==
    /\ pc = "sending"
    /\ \E e \in NetworkExceptions :
          /\ HandleRequestException(e)
          /\ answers' = Append(answers, e.type)
    /\ requests' = requests + 1
    /\ UNCHANGED <<reqvars, previous, max_retries, attempt, backoff, sleeps, response>>
    /\ UNCHANGED <<authvars, safevars>>

AfterSleepTwice(cause) ==
    /\ sleeps' = Append(Append(sleeps, [wait |-> wait_time, cause |-> cause]),
                        [wait |-> backoff, cause |-> cause])
    /\ backoff' = MultiplyBackoff(backoff)
    /\ attempt' = attempt + 1
    /\ pc' = "sending"
    /\ UNCHANGED <<reqvars, previous, max_retries, last_exception, response, wait_time,
                   requests, answers, result>>
    /\ UNCHANGED <<authvars, safevars>>

AfterSleepFreezeOnRetryAfter(cause) ==
    /\ sleeps' = Append(sleeps, [wait |-> wait_time, cause |-> cause])
    /\ backoff' = IF cause = "retry_after" THEN backoff ELSE MultiplyBackoff(backoff)
    /\ attempt' = attempt + 1
    /\ pc' = "sending"
    /\ UNCHANGED <<reqvars, previous, max_retries, last_exception, response, wait_time,
                   requests, answers, result>>
    /\ UNCHANGED <<authvars, safevars>>

AfterSleepExceptionKeepsBackoff(cause) ==
    /\ sleeps' = Append(sleeps, [wait |-> wait_time, cause |-> cause])
    /\ backoff' = IF cause = "exception" THEN backoff ELSE MultiplyBackoff(backoff)
    /\ attempt' = attempt + 1
    /\ pc' = "sending"
    /\ UNCHANGED <<reqvars, previous, max_retries, last_exception, response, wait_time,
                   requests, answers, result>>
    /\ UNCHANGED <<authvars, safevars>>

AfterSleep(cause) ==
    /\ sleeps' = Append(sleeps, [wait |-> wait_time, cause |-> cause])
    /\ backoff' = MultiplyBackoff(backoff)
    /\ attempt' = attempt + 1
    /\ pc' = "sending"
    /\ UNCHANGED <<reqvars, previous, max_retries, last_exception, response, wait_time,
                   requests, answers, result>>
    /\ UNCHANGED <<authvars, safevars>>

SleepAfterStatus ==
    /\ pc = "sleep_status"
    /\ AfterSleep(IF UsesRetryAfter(response) THEN "retry_after" ELSE "status")

SleepAfterException ==
    /\ pc = "sleep_exception"
    /\ AfterSleep("exception")

ExhaustedResult ==
    IF last_exception.some
    THEN RaisedExhaustedException(max_retries + 1, last_exception.v)
    ELSE IF response.bound
         THEN RaisedExhaustedStatus(max_retries + 1, response)
         ELSE RaisedUnboundLocal

RaiseExhausted ==
    /\ pc = "exhausted"
    /\ result' = ExhaustedResult
    /\ pc' = "raised"
    /\ UNCHANGED <<reqvars, previous, max_retries, attempt, backoff, last_exception, response,
                   wait_time, requests, sleeps, answers>>
    /\ UNCHANGED <<authvars, safevars>>

Next ==
    \/ Call
    \/ ReceiveResponse
    \/ RequestFails
    \/ SleepAfterStatus
    \/ SleepAfterException
    \/ RaiseExhausted

Spec == Init /\ [][Next]_vars

(* session.request is bounded by self.timeout and time.sleep returns: a call *)
(* that is sending, sleeping or about to raise takes its next step.  The     *)
(* caller is free never to call again, so Call is not fair.                  *)
FairSpec ==
    /\ Init
    /\ [][Next]_vars
    /\ WF_vars(ReceiveResponse \/ RequestFails)
    /\ WF_vars(SleepAfterStatus)
    /\ WF_vars(SleepAfterException)
    /\ WF_vars(RaiseExhausted)

---------------------------------------------------------------------------
(* get_access_token, one step per access to the shared cache *)

DefaultMaxRetries == 5

AuthInit ==
    /\ ExecutorIdle(DefaultMaxRetries)
    /\ ClientReady
    /\ SafeIdle
    /\ \E e \in SUBSET Secrets : AuthIdle(e)

NoExpiry == -1

(* return or raise: the locals of the call are gone *)
Finish(t, o) ==
    /\ out' = [out EXCEPT ![t] = o]
    /\ tpc' = [tpc EXCEPT ![t] = "done"]
    /\ now' = [now EXCEPT ![t] = 0]
    /\ seen_token' = [seen_token EXCEPT ![t] = NoToken]
    /\ seen_expiry' = [seen_expiry EXCEPT ![t] = NotRead]
    /\ token_data' = [token_data EXCEPT ![t] = NoTokenData]

Goto(t, label) ==
    /\ tpc' = [tpc EXCEPT ![t] = label]
    /\ UNCHANGED <<out, now>>

Enter(t) ==
    /\ tpc[t] \in {"idle", "done"}
    /\ ncalls < MaxCalls
    /\ ncalls' = ncalls + 1
    /\ \E f \in BOOLEAN :
          /\ force_refresh' = [force_refresh EXCEPT ![t] = f]
          /\ tpc' = [tpc EXCEPT ![t] = IF f THEN "refresh" ELSE "check_token"]
    /\ now' = [now EXCEPT ![t] = clock]
    /\ out' = [out EXCEPT ![t] = NoOutcome]
    /\ late_entry' = (late_entry \/ \E u \in Threads : tpc[u] = "done")
    /\ UNCHANGED <<cached_token, token_expires_at, env, clock, seen_token,
                   seen_expiry, token_data, issued, nexchanges>>
    /\ UNCHANGED lifetimes
    /\ UNCHANGED <<execvars, safevars>>

CheckToken(t) ==
    /\ tpc[t] = "check_token"
    /\ seen_token' = [seen_token EXCEPT ![t] = cached_token]
    /\ Goto(t, IF cached_token # NoToken THEN "check_expiry" ELSE "refresh")
    /\ UNCHANGED <<cached_token, token_expires_at, env, clock, force_refresh,
                   seen_expiry, token_data, issued, nexchanges, ncalls,
                   late_entry>>
    /\ UNCHANGED lifetimes
    /\ UNCHANGED <<execvars, safevars>>

CheckExpiry(t) ==
    /\ tpc[t] = "check_expiry"
    /\ seen_expiry' = [seen_expiry EXCEPT ![t] = token_expires_at]
    /\ Goto(t, IF IsFresh(now[t], seen_token[t], token_expires_at)
               THEN "return_cached" ELSE "refresh")
    /\ UNCHANGED <<cached_token, token_expires_at, env, clock, force_refresh,
                   seen_token, token_data, issued, nexchanges, ncalls,
                   late_entry>>
    /\ UNCHANGED lifetimes
    /\ UNCHANGED <<execvars, safevars>>

ReturnCachedWaits(t) ==
    /\ tpc[t] = "return_cached"
    /\ \A u \in Threads : tpc[u] \notin {"exchange", "store_token", "store_expiry"}
    /\ Finish(t, ReturnedToken(cached_token))
    /\ UNCHANGED <<cached_token, token_expires_at, env, clock, force_refresh, issued,
                   nexchanges, ncalls, late_entry>>
    /\ UNCHANGED lifetimes
    /\ UNCHANGED <<execvars, safevars>>

ReturnCached(t) ==
    /\ tpc[t] = "return_cached"
    /\ Finish(t, ReturnedToken(cached_token))
    /\ UNCHANGED <<cached_token, token_expires_at, env, clock, force_refresh, issued,
                   nexchanges, ncalls, late_entry>>
    /\ UNCHANGED lifetimes
    /\ UNCHANGED <<execvars, safevars>>

(* lines 61-92: the cache was not used; validate the environment and post *)
LoadEnv(t) ==
    /\ tpc[t] = "refresh"
    /\ IF MissingSecrets # {}
       THEN Finish(t, RaisedMissing(MissingSecrets))
       ELSE /\ Goto(t, "exchange")
            /\ UNCHANGED <<seen_token, seen_expiry, token_data>>
    /\ UNCHANGED <<cached_token, token_expires_at, env, clock, force_refresh, issued,
                   nexchanges, ncalls, late_entry>>
    /\ UNCHANGED lifetimes
    /\ UNCHANGED <<execvars, safevars>>

(* lines 92-94 and the handlers of lines 102-110: the answer of the token    *)
(* endpoint to this caller's POST; every successful exchange issues a token  *)
(* of its own, which the code will store with expiry now + expires_in.       *)
ExpiryFor(t, field) ==
    IF field.given = "invalid" THEN NoExpiry ELSE now[t] + ExpiresIn(field)

LifetimeOf(field) ==
    IF field.given = "invalid" THEN NoExpiry ELSE ExpiresIn(field)

TokenError(kind) ==
    CASE kind = "http_error" -> "HTTPError"
      [] kind = "no_access_token" -> "ValueError:missing_field"
      [] kind = "network_error" -> "ConnectionError"

HandleTokenResponseRetries(t, kind, field) ==
    IF kind = "ok"
    THEN /\ issued' = Append(issued, ExpiryFor(t, field))
         /\ lifetimes' = Append(lifetimes, LifetimeOf(field))
         /\ token_data' = [token_data EXCEPT ![t] =
                 [access_token |-> Len(issued) + 1, expires_in |-> field]]
         /\ Goto(t, "store_token")
         /\ UNCHANGED <<seen_token, seen_expiry>>
    ELSE IF kind = "http_error"
         THEN /\ Goto(t, "exchange")
              /\ UNCHANGED <<seen_token, seen_expiry, token_data, issued, lifetimes>>
         ELSE /\ Finish(t, RaisedError(TokenError(kind)))
              /\ UNCHANGED <<issued, lifetimes>>

HandleTokenResponse(t, kind, field) ==
    IF kind = "ok"
    THEN /\ issued' = Append(issued, ExpiryFor(t, field))
         /\ lifetimes' = Append(lifetimes, LifetimeOf(field))
         /\ token_data' = [token_data EXCEPT ![t] =
                 [access_token |-> Len(issued) + 1, expires_in |-> field]]
         /\ Goto(t, "store_token")
         /\ UNCHANGED <<seen_token, seen_expiry>>
    ELSE /\ Finish(t, RaisedError(TokenError(kind)))
         /\ UNCHANGED <<issued, lifetimes>>

TokenResponse(t) ==
    /\ tpc[t] = "exchange"
    /\ nexchanges' = nexchanges + 1
    /\ \E kind \in TokenResponseKinds :
          \E field \in (IF kind = "ok" THEN ExpiresInFields
                                       ELSE {NoTokenData.expires_in}) :
              HandleTokenResponse(t, kind, field)
    /\ UNCHANGED <<cached_token, token_expires_at, env, clock, force_refresh, ncalls,
                   late_entry>>
    /\ UNCHANGED <<execvars, safevars>>

StoreToken(t) ==
    /\ tpc[t] = "store_token"
    /\ cached_token' = token_data[t].access_token
    /\ Goto(t, "store_expiry")
    /\ UNCHANGED <<token_expires_at, env, clock, force_refresh, seen_token,
                   seen_expiry, token_data, issued, nexchanges, ncalls,
                   late_entry>>
    /\ UNCHANGED lifetimes
    /\ UNCHANGED <<execvars, safevars>>

StoreExpiry(t) ==
    /\ tpc[t] = "store_expiry"
    /\ IF token_data[t].expires_in.given = "invalid"
       THEN /\ Finish(t, RaisedError("ValueError:expires_in"))
            /\ UNCHANGED token_expires_at
       ELSE /\ token_expires_at' = now[t] + ExpiresIn(token_data[t].expires_in)
            /\ Goto(t, "return_fresh")
            /\ UNCHANGED <<seen_token, seen_expiry, token_data>>
    /\ UNCHANGED <<cached_token, env, clock, force_refresh, issued, nexchanges,
                   ncalls, late_entry>>
    /\ UNCHANGED lifetimes
    /\ UNCHANGED <<execvars, safevars>>

ReturnFresh(t) ==
    /\ tpc[t] = "return_fresh"
    /\ Finish(t, ReturnedToken(cached_token))
    /\ UNCHANGED <<cached_token, token_expires_at, env, clock, force_refresh, issued,
                   nexchanges, ncalls, late_entry>>
    /\ UNCHANGED lifetimes
    /\ UNCHANGED <<execvars, safevars>>

Tick ==
    /\ \E d \in TickSteps :
          /\ clock + d <= MaxClock
          /\ clock' = clock + d
    /\ UNCHANGED <<cached_token, token_expires_at, env, tpc, force_refresh, now,
                   seen_token, seen_expiry, token_data, out, issued,
                   nexchanges, ncalls, late_entry>>
    /\ UNCHANGED lifetimes
    /\ UNCHANGED <<execvars, safevars>>

AuthNext ==
    \/ \E t \in Threads : Enter(t)
    \/ \E t \in Threads : CheckToken(t)
    \/ \E t \in Threads : CheckExpiry(t)
    \/ \E t \in Threads : ReturnCached(t)
    \/ \E t \in Threads : LoadEnv(t)
    \/ \E t \in Threads : TokenResponse(t)
    \/ \E t \in Threads : StoreToken(t)
    \/ \E t \in Threads : StoreExpiry(t)
    \/ \E t \in Threads : ReturnFresh(t)
    \/ Tick

AuthSpec == AuthInit /\ [][AuthNext]_vars

(* one caller making its calls one after the other *)
Caller == CHOOSE t \in Threads : \A u \in Threads : t <= u

SeqAuthNext ==
    \/ Enter(Caller)
    \/ CheckToken(Caller)
    \/ CheckExpiry(Caller)
    \/ ReturnCached(Caller)
    \/ LoadEnv(Caller)
    \/ TokenResponse(Caller)
    \/ StoreToken(Caller)
    \/ StoreExpiry(Caller)
    \/ ReturnFresh(Caller)
    \/ Tick

SeqAuthSpec == AuthInit /\ [][SeqAuthNext]_vars

---------------------------------------------------------------------------
(* BaseHTTPClient.__init__ and calls with their arguments *)

(* no client object yet: the fields hold nothing *)
ClientInit ==
    /\ ExecutorIdle(0)
    /\ ctor = NoClient
    /\ base_url = <<>>
    /\ access_token = <<>>
    /\ timeout = 0
    /\ AuthIdle(Secrets)
    /\ SafeIdle

(* lines 61-70 *)
Construct(b, tok, mr, to) ==
    /\ ctor.state # "ok"
    /\ pc = "idle"
    /\ IF b = <<>>
          THEN /\ ctor' = ValueError("base_url is required", b, tok, mr, to)
               /\ UNCHANGED <<base_url, access_token, max_retries, timeout>>
       ELSE IF tok = <<>>
          THEN /\ ctor' = ValueError("access_token is required", b, tok, mr, to)
               /\ UNCHANGED <<base_url, access_token, max_retries, timeout>>
       ELSE /\ ctor' = Constructed(b, tok, mr, to)
            /\ base_url' = RStripSlashes(b)
            /\ access_token' = tok
            /\ max_retries' = mr
            /\ timeout' = to
    /\ UNCHANGED <<pc, attempt, backoff, last_exception, response, wait_time,
                   requests, sleeps, answers, result, previous, path, extra,
                   url, headers>>
    /\ UNCHANGED <<authvars, safevars>>

NewClient == \E a \in ConstructorArgs : Construct(a[1], a[2], a[3], a[4])

(* get, post, put, delete: lines 178-269 *)
ClientCall == \E p \in Paths, x \in ExtraHeaders : Execute(p, x)

ClientNext ==
    \/ NewClient
    \/ ClientCall
    \/ ReceiveResponse
    \/ RequestFails
    \/ SleepAfterStatus
    \/ SleepAfterException
    \/ RaiseExhausted

ClientSpec == ClientInit /\ [][ClientNext]_vars

---------------------------------------------------------------------------
(* safe_api_call of examples/advanced/03_error_handling.py *)

SafeDefaultRetries == 3

SafeRetryableCodes == {429, 500, 502, 503, 504}

(* what an invocation of func gives safe_api_call: a value, or an exception *)
(* with its type and, for an HTTPError, its response attribute              *)
FuncReturned == [kind |-> "returned", type |-> "Response", response |-> None]

FuncRaised(type, resp) == [kind |-> "raised", type |-> type, response |-> resp]

(* base_client.py lines 169-177 build the HTTPError from a message alone:   *)
(* the exception carries no response.                                       *)
AsSeenByCaller(res) ==
    IF res.kind = "returned" THEN FuncReturned
    ELSE FuncRaised(res.type, None)

(* response.raise_for_status() attaches the response to the HTTPError *)
RaiseForStatus(st) ==
    IF IsHTTPErrorStatus(st) THEN FuncRaised("HTTPError", Some(st))
    ELSE FuncReturned

SafeReturned(what) ==
    [kind |-> "returned", type |-> what, status_code |-> None, error_code |-> ""]

PurviewAPIError(status_code, error_code) ==
    [kind |-> "raised", type |-> "PurviewAPIError", status_code |-> status_code,
     error_code |-> error_code]

SafeEscaped(type) ==
    [kind |-> "raised", type |-> type, status_code |-> None, error_code |-> ""]

(* error_code read from the body of the response, or HTTP_<status> *)
BodyErrorCode == "code of the body or HTTP_status"

SafeClientRetries == {-1, 0, 1}

SafeInit ==
    /\ \E mr \in SafeClientRetries : ExecutorIdle(mr)
    /\ ClientReady
    /\ AuthIdle(Secrets)
    /\ SafeIdle

(* line 85 and lines 101-102 *)
SafeApiCall(f, mr) ==
    /\ spc = "idle"
    /\ wrapped' = f
    /\ sa_max_retries' = mr
    /\ sa_attempt' = 0
    /\ invocations' = 0
    /\ sa_sleeps' = <<>>
    /\ func_result' = NoResult
    /\ sa_out' = NoResult
    /\ spc' = "while"
    /\ UNCHANGED <<execvars, authvars>>

(* line 104: while attempt < max_retries; falling off the loop returns None *)
SafeWhile ==
    /\ spc = "while"
    /\ IF sa_attempt < sa_max_retries
         THEN spc' = "invoke" /\ sa_out' = sa_out
         ELSE spc' = "done" /\ sa_out' = SafeReturned("NoneType")
    /\ UNCHANGED <<wrapped, sa_max_retries, sa_attempt, invocations, sa_sleeps,
                   func_result>>
    /\ UNCHANGED <<execvars, authvars>>

(* line 106 with func a method of the client: the call starts *)
SafeInvokeClient ==
    /\ spc = "invoke"
    /\ wrapped = "client"
    /\ BeginCall(path, extra)
    /\ invocations' = invocations + 1
    /\ spc' = "running"
    /\ UNCHANGED <<wrapped, sa_max_retries, sa_attempt, sa_sleeps, func_result,
                   sa_out>>
    /\ UNCHANGED authvars

(* line 106: the client's call has returned or raised *)
SafeClientEnds ==
    /\ spc = "running"
    /\ pc \in Terminal
    /\ func_result' = AsSeenByCaller(result)
    /\ spc' = "handle"
    /\ UNCHANGED <<wrapped, sa_max_retries, sa_attempt, invocations, sa_sleeps,
                   sa_out>>
    /\ UNCHANGED <<execvars, authvars>>

(* line 106 with func one request followed by raise_for_status *)
SafeInvokeRaw ==
    /\ spc = "invoke"
    /\ wrapped = "raw"
    /\ \E st \in Statuses : func_result' = RaiseForStatus(st)
    /\ invocations' = invocations + 1
    /\ spc' = "handle"
    /\ UNCHANGED <<wrapped, sa_max_retries, sa_attempt, sa_sleeps, sa_out>>
    /\ UNCHANGED <<execvars, authvars>>

(* lines 108-172: the status branches of the HTTPError handler *)
HandleStatus(st) ==
    /\ sa_attempt' = sa_attempt + 1
    /\ IF st = 401 THEN
          spc' = "done" /\ sa_out' = PurviewAPIError(Some(401), "UNAUTHORIZED")
       ELSE IF st = 403 THEN
          spc' = "done" /\ sa_out' = PurviewAPIError(Some(403), "FORBIDDEN")
       ELSE IF st = 404 THEN
          spc' = "done" /\ sa_out' = PurviewAPIError(Some(404), "NOT_FOUND")
       ELSE IF st = 400 THEN
          spc' = "done" /\ sa_out' = PurviewAPIError(Some(400), BodyErrorCode)
       ELSE IF st \in SafeRetryableCodes THEN
          IF sa_attempt + 1 < sa_max_retries
             THEN spc' = "sleeping" /\ sa_out' = sa_out
             ELSE spc' = "done" /\ sa_out' = PurviewAPIError(Some(st), BodyErrorCode)
       ELSE
          spc' = "done" /\ sa_out' = PurviewAPIError(Some(st), BodyErrorCode)

(* lines 106-180: return, or the except clause that matches *)
SafeHandle ==
    /\ spc = "handle"
    /\ IF func_result.kind = "returned" THEN
          /\ spc' = "done"
          /\ sa_out' = SafeReturned(func_result.type)
          /\ UNCHANGED sa_attempt
       ELSE IF func_result.type = "HTTPError" THEN
          IF func_result.response.some
             THEN HandleStatus(func_result.response.v)
             \* line 109: e.response is None, the attribute access raises
             \* inside the handler and leaves safe_api_call
             ELSE /\ spc' = "done"
                  /\ sa_out' = SafeEscaped("AttributeError")
                  /\ UNCHANGED sa_attempt
       ELSE
          /\ spc' = "done"
          /\ sa_out' = PurviewAPIError(None, "UNEXPECTED_ERROR")
          /\ UNCHANGED sa_attempt
    /\ UNCHANGED <<wrapped, sa_max_retries, invocations, sa_sleeps, func_result>>
    /\ UNCHANGED <<execvars, authvars>>

(* lines 154-158: time.sleep(2 ** attempt); continue *)
SafeSleep ==
    /\ spc = "sleeping"
    /\ sa_sleeps' = Append(sa_sleeps, Pow(2, sa_attempt))
    /\ spc' = "while"
    /\ UNCHANGED <<wrapped, sa_max_retries, sa_attempt, invocations, func_result,
                   sa_out>>
    /\ UNCHANGED <<execvars, authvars>>

SafeNext ==
    \/ \E f \in {"client", "raw"}, mr \in 0..SafeDefaultRetries : SafeApiCall(f, mr)
    \/ SafeWhile
    \/ SafeInvokeClient
    \/ ReceiveResponse
    \/ RequestFails
    \/ SleepAfterStatus
    \/ SleepAfterException
    \/ RaiseExhausted
    \/ SafeClientEnds
    \/ SafeInvokeRaw
    \/ SafeHandle
    \/ SafeSleep

SafeSpec == SafeInit /\ [][SafeNext]_vars

---------------------------------------------------------------------------
(* Vocabulary of the properties *)

Active == {"sending", "sleep_status", "sleep_exception", "exhausted"}

Is2xx(s) == s >= 200 /\ s < 300

(* the answer was an exception of the transport, logged under its type *)
IsNetworkFailure(a) == a \in {e.type : e \in NetworkExceptions}

AllRetryable(log) == \A i \in 1..Len(log) : log[i] = "retryable"

(* x is the value 2.0 * 1.7^n, compared without division *)
IsBackoffAfter(x, n) == x * Pow(10, n) = Seconds(2) * Pow(17, n)

StatusRetries == Cardinality({i \in 1..Len(sleeps) : sleeps[i].cause \in {"status", "retry_after"}})

ExceptionRetries == Cardinality({i \in 1..Len(sleeps) : sleeps[i].cause = "exception"})

(* the pair was written by one exchange: token k with the expiry of token k *)
PairFromOneExchange(tok, exp) ==
    /\ tok \in 1..Len(issued)
    /\ issued[tok] = exp

CacheFromOneExchange ==
    \/ cached_token = NoToken /\ token_expires_at = 0
    \/ PairFromOneExchange(cached_token, token_expires_at)

InCall(t) == tpc[t] \notin {"idle", "done"}

(* the cache holds a token whose expiry lies more than 120 s after time n *)
CachedValidAt(n) == cached_token # NoToken /\ token_expires_at - n > 120

AllCallsFinished == \A t \in Threads : tpc[t] \in {"idle", "done"}

(* every token response so far carried a usable expires_in *)
ResponsesWellFormed == \A k \in 1..Len(issued) : issued[k] # NoExpiry

---------------------------------------------------------------------------
(* C1: with max_retries >= 0, a response whose status is a 4xx/5xx outside  *)
(* {429, 500, 502, 503, 504} ends the call at once with an HTTP error: it   *)
(* is the last answer of the call, no sleep follows it and no further       *)
(* request is issued.                                                       *)
C1_NonRetryableStatusEndsCall ==
    max_retries >= 0 =>
        \A i \in 1..Len(answers) :
            answers[i] = "error" =>
                /\ i = Len(answers)
                /\ pc \in {"exhausted", "raised"}
                /\ Len(sleeps) = i - 1
                /\ pc = "raised" => result.type = "HTTPError"

---------------------------------------------------------------------------
(* C2: when each of the max_retries + 1 attempts received a retryable       *)
(* status, the error raised carries the attempt count max_retries + 1, the  *)
(* last status code and the truncated excerpt of the last response body.    *)
C2_ExhaustionMessageHasCountStatusBody ==
    ( /\ pc = "raised"
      /\ max_retries >= 0
      /\ Len(answers) = max_retries + 1
      /\ AllRetryable(answers) )
    => /\ result.type = "HTTPError"
       /\ result.attempts = max_retries + 1
       /\ result.status = response.status
       /\ result.excerpt = Excerpt(response.text)

---------------------------------------------------------------------------
(* C5: for 0 <= N <= max_retries, N retryable statuses followed by a 2xx    *)
(* status make the call return that 2xx response after exactly N + 1        *)
(* requests and N sleeps; while only retryable statuses have arrived and    *)
(* attempts remain, the call is waiting for or issuing the next attempt.    *)
C5_RetryableThenSuccessReturns ==
    LET n == Len(answers) IN
    /\ ( /\ n >= 1
         /\ n - 1 <= max_retries
         /\ AllRetryable(SubSeq(answers, 1, n - 1))
         /\ answers[n] = "success"
         /\ Is2xx(response.status) )
       => /\ pc = "returned"
          /\ result = Returned(response)
          /\ requests = n
          /\ Len(sleeps) = n - 1
    /\ ( /\ n >= 1
         /\ n <= max_retries
         /\ AllRetryable(answers) )
       => /\ requests = n
          /\ \/ pc = "sleep_status" /\ Len(sleeps) = n - 1
             \/ pc = "sending" /\ Len(sleeps) = n

C5_Witness ==
    /\ pc = "returned"
    /\ max_retries >= 2
    /\ Len(answers) = max_retries + 1
    /\ AllRetryable(SubSeq(answers, 1, max_retries))
    /\ Is2xx(response.status)
    /\ Len(sleeps) = max_retries

---------------------------------------------------------------------------
(* C6: a response the call returns never has a 4xx/5xx status, in           *)
(* particular none of {429, 500, 502, 503, 504}; a call that returned has   *)
(* returned the response of its last request.                               *)
C6_ReturnedResponsePassedStatusCheck ==
    /\ pc = "returned" <=> result.kind = "returned"
    /\ result.kind = "returned" =>
          /\ result.response = response
          /\ result.response.status \notin RetryableStatuses
          /\ ~IsHTTPErrorStatus(result.response.status)

C6_Witness ==
    /\ result.kind = "returned"
    /\ Len(answers) >= 3
    /\ \E i \in 1..Len(answers) : answers[i] = "retryable"
    /\ \E i \in 1..Len(answers) : IsNetworkFailure(answers[i])

---------------------------------------------------------------------------
(* C7: with max_retries >= 0 (the RetryPolicy of the specification), a call *)
(* never issues more than max_retries + 1 requests nor performs more than   *)
(* max_retries sleeps, and every call that started ends: it returns or      *)
(* raises, whatever the transport answers.                                  *)
C7_CallTerminatesWithinBudget ==
    /\ [](max_retries >= 0 =>
            /\ requests <= max_retries + 1
            /\ Len(sleeps) <= max_retries)
    /\ (pc \in Active) ~> (pc \in Terminal)

C7_Witness ==
    /\ pc = "raised"
    /\ max_retries >= 2
    /\ requests = max_retries + 1
    /\ Len(sleeps) = max_retries

---------------------------------------------------------------------------
(* C8: a retryable status with attempts remaining leads to a sleep; its     *)
(* length is the Retry-After value in seconds when the header is a decimal  *)
(* number of seconds (5, 10), whatever the backoff is, and the backoff      *)
(* otherwise (header absent, empty or not such a number); in both cases the *)
(* backoff of the next attempt is the current one times 1.7.                *)
ClaimedWait(h, b) ==
    IF h = Some(<<"5">>) THEN Seconds(5)
    ELSE IF h = Some(<<"1", "0">>) THEN Seconds(10)
    ELSE b

C8_RetryAfterSetsWaitBackoffStillAdvances ==
    [][ /\ ( /\ pc = "sending"
             /\ requests' = requests + 1
             /\ answers' = Append(answers, "retryable")
             /\ attempt < max_retries )
           => /\ pc' = "sleep_status"
              /\ wait_time' = ClaimedWait(response'.retry_after, backoff)
              /\ backoff' = backoff
        /\ pc = "sleep_status"
           => /\ pc' = "sending"
              /\ Len(sleeps') = Len(sleeps) + 1
              /\ sleeps'[Len(sleeps')].wait = ClaimedWait(response.retry_after, backoff)
              /\ backoff' * 10 = backoff * 17
              /\ attempt' = attempt + 1 ]_vars

C8_Witness ==
    /\ pc = "sending"
    /\ Len(sleeps) = 2
    /\ sleeps[2].cause = "retry_after"
    /\ sleeps[2].wait = Seconds(5)
    /\ response.retry_after = Some(<<"5">>)
    /\ IsBackoffAfter(backoff, 2)

---------------------------------------------------------------------------
(* C9: the backoff of a call starts at 2.0 s whatever max_retries is and is *)
(* multiplied by 1.7 at each retry: a k-th wait not taken from Retry-After  *)
(* is 2.0 * 1.7^(k-1); with max_retries = 2 and answers 429, 429, 200 the   *)
(* call returns the 200 response after two sleeps of 2.0 s and 3.4 s.       *)
C9_BackoffStartsAtTwoAndGrowsBy17 ==
    /\ (pc \in Active /\ Len(sleeps) = 0) => backoff = Seconds(2)
    /\ \A k \in 1..Len(sleeps) :
          sleeps[k].cause # "retry_after" => IsBackoffAfter(sleeps[k].wait, k - 1)
    /\ ( /\ max_retries = 2
         /\ answers = <<"retryable", "retryable", "success">>
         /\ response.status = 200
         /\ \A k \in 1..Len(sleeps) : sleeps[k].cause # "retry_after" )
       => /\ pc = "returned"
          /\ result = Returned(response)
          /\ Len(sleeps) = 2
          /\ sleeps[1].wait = Seconds(2)
          /\ sleeps[2].wait * 10 = Seconds(34)

C9_Witness ==
    /\ max_retries = 2
    /\ pc = "returned"
    /\ answers = <<"retryable", "retryable", "success">>
    /\ response.status = 200
    /\ Len(sleeps) = 2
    /\ sleeps[1] = [wait |-> Seconds(2), cause |-> "status"]
    /\ sleeps[2].cause = "status"
    /\ sleeps[2].wait * 10 = Seconds(34)

---------------------------------------------------------------------------
(* C10: a network failure with attempts remaining is followed by a sleep of *)
(* the current backoff and then by a new attempt; status retries and        *)
(* exception retries advance one backoff: after j of the first and k of the *)
(* second the backoff is 2.0 * 1.7^(j+k).                                   *)
C10_ExceptionsShareTheBackoff ==
    LET n == Len(answers) IN
    /\ (pc \in Active \cup Terminal) =>
          /\ StatusRetries + ExceptionRetries = Len(sleeps)
          /\ IsBackoffAfter(backoff, StatusRetries + ExceptionRetries)
    /\ (n >= 1 /\ n <= max_retries /\ IsNetworkFailure(answers[n])) =>
          \/ /\ pc = "sleep_exception"
             /\ wait_time = backoff
             /\ Len(sleeps) = n - 1
          \/ /\ pc = "sending"
             /\ requests = n
             /\ Len(sleeps) = n
             /\ sleeps[n].cause = "exception"
             /\ IsBackoffAfter(sleeps[n].wait, n - 1)

C10_Witness ==
    /\ pc = "sending"
    /\ StatusRetries >= 1
    /\ ExceptionRetries >= 1
    /\ IsNetworkFailure(answers[Len(answers)])
    /\ last_exception.v.type \in {"ConnectionError", "Timeout"}

---------------------------------------------------------------------------
(* C11: with max_retries >= 0, when the last of the max_retries + 1         *)
(* attempts failed with an exception of the transport, the call raises an   *)
(* error whose cause is the exception of that last attempt, not the one of  *)
(* an earlier attempt, and whose message carries the attempt count          *)
(* max_retries + 1.                                                         *)
C11_LastNetworkExceptionIsWrapped ==
    LET n == Len(answers) IN
    ( /\ pc = "raised"
      /\ max_retries >= 0
      /\ n = max_retries + 1
      /\ IsNetworkFailure(answers[n]) )
    => /\ result.kind = "raised"
       /\ result.type = "HTTPError"
       /\ result.attempts = max_retries + 1
       /\ result.cause = Some([type |-> answers[n], status |-> NoStatus])

C11_Witness ==
    /\ pc = "raised"
    /\ max_retries = 2
    /\ answers = <<"Timeout", "retryable", "ConnectionError">>
    /\ result.attempts = 3
    /\ result.cause.v.type = "ConnectionError"

---------------------------------------------------------------------------
(* C12 as stated: within a call, the waits slept between consecutive        *)
(* attempts never decrease from one retry to the next.                      *)
C12_WaitsNeverDecrease ==
    \A i \in 1..Len(sleeps) : \A j \in 1..Len(sleeps) :
        i < j => sleeps[i].wait <= sleeps[j].wait

(* C12 amended: within a call the backoff never decreases, so the waits     *)
(* that are not taken from a Retry-After header never decrease from one     *)
(* retry to the next, whatever statuses, headers and network failures       *)
(* arrive; a wait taken from Retry-After is the header's value and may be   *)
(* longer or shorter than its neighbours.                                   *)
C12_BackoffWaitsNeverDecrease ==
    /\ pc \in Active => backoff >= Seconds(2)
    /\ \A i \in 1..Len(sleeps) :
          /\ sleeps[i].cause = "retry_after" => sleeps[i].wait \in {Seconds(5), Seconds(10)}
          /\ \A j \in 1..Len(sleeps) :
                ( /\ i < j
                  /\ sleeps[i].cause # "retry_after"
                  /\ sleeps[j].cause # "retry_after" )
                => sleeps[i].wait <= sleeps[j].wait
    /\ \A i \in 1..Len(sleeps) :
          (pc \in Active /\ sleeps[i].cause # "retry_after") => sleeps[i].wait <= backoff

C12_Witness ==
    /\ Len(sleeps) = 2
    /\ sleeps[1].cause = "exception"
    /\ sleeps[2].cause = "status"
    /\ sleeps[1].wait < sleeps[2].wait
    /\ sleeps[2].wait < backoff

---------------------------------------------------------------------------
(* C13: with max_retries >= 0, requests and sleeps alternate: while a       *)
(* request is in flight as many sleeps as requests have been made, and      *)
(* after the answer to a request one sleep fewer, so one sleep lies between *)
(* two consecutive requests and none follows the last one: in every         *)
(* terminal state the number of sleeps is the number of requests minus one. *)
C13_RequestsAndSleepsAlternate ==
    max_retries >= 0 =>
        /\ pc = "sending" => Len(sleeps) = requests
        /\ pc \in {"sleep_status", "sleep_exception", "exhausted"} =>
              Len(sleeps) = requests - 1
        /\ pc \in Terminal =>
              /\ requests >= 1
              /\ Len(sleeps) = requests - 1
              /\ Len(answers) = requests

C13_Witness ==
    /\ pc \in Terminal
    /\ requests = 3
    /\ Len(sleeps) = 2
    /\ sleeps[1].cause = "status"
    /\ sleeps[2].cause = "exception"

---------------------------------------------------------------------------
(* C14: one caller, calls one after the other.  While a call without        *)
(* force_refresh runs and the cache holds a token whose expiry is more than *)
(* 120 s after the call time, no step performs an exchange or changes the   *)
(* cache, the call never enters the refresh path, and when it ends it       *)
(* returns the cached token.  Hence a second get_access_token() made within *)
(* the validity window of the token the first one obtained adds no exchange *)
(* to the one of the first call.                                            *)
C14_ValidCacheIsReturnedWithoutExchange ==
    [][ \A t \in Threads :
          ( /\ InCall(t)
            /\ ~force_refresh[t]
            /\ CachedValidAt(now[t]) )
          => /\ nexchanges' = nexchanges
             /\ cached_token' = cached_token
             /\ token_expires_at' = token_expires_at
             /\ tpc'[t] \notin {"refresh", "exchange", "store_token", "store_expiry"}
             /\ tpc'[t] = "done" => out'[t] = ReturnedToken(cached_token) ]_vars

C14_Witness ==
    /\ ncalls = 2
    /\ tpc[Caller] = "done"
    /\ ~force_refresh[Caller]
    /\ clock = 10
    /\ nexchanges = 1
    /\ issued = <<3600>>
    /\ out[Caller] = ReturnedToken(1)
    /\ cached_token = 1
    /\ token_expires_at = 3600

---------------------------------------------------------------------------
(* C15: one caller.  After a successful exchange whose expires_in is absent *)
(* or an integer, the cache holds the access_token of the response with the *)
(* expiry call time + expires_in (3600 when the field is absent), and the   *)
(* call returns that token; after the exchange of a call at time 0 stored   *)
(* token 1 with expiry 3600, a get_access_token() 10 s later returns token  *)
(* 1 without a new exchange.                                                *)
ClaimedLifetime(field) == IF field.given = "absent" THEN 3600 ELSE field.v

C15_ExchangeFillsCacheAndIsReturned ==
    /\ [](\A t \in Threads :
            tpc[t] = "return_fresh" =>
                /\ token_data[t].expires_in.given \in {"absent", "int"}
                /\ cached_token = token_data[t].access_token
                /\ token_expires_at = now[t] + ClaimedLifetime(token_data[t].expires_in))
    /\ [][ \A t \in Threads :
             /\ (tpc[t] = "return_fresh" /\ tpc'[t] # "return_fresh") =>
                   /\ out'[t] = ReturnedToken(token_data[t].access_token)
                   /\ cached_token' = cached_token
                   /\ token_expires_at' = token_expires_at
             /\ ( /\ InCall(t)
                  /\ ~force_refresh[t]
                  /\ now[t] = 10
                  /\ issued = <<3600>>
                  /\ cached_token = 1 )
                => /\ nexchanges' = nexchanges
                   /\ tpc'[t] = "done" => out'[t] = ReturnedToken(1) ]_vars

C15_Witness ==
    /\ tpc[Caller] = "return_fresh"
    /\ now[Caller] = 10
    /\ token_data[Caller].expires_in.given = "absent"
    /\ cached_token = token_data[Caller].access_token
    /\ token_expires_at = 3610

---------------------------------------------------------------------------
(* C16: one caller, after any sequence of calls and clock advances.  A call *)
(* that returns a token returns the cached one, and the expiry recorded in  *)
(* the cache is at least 120 s after the call time, unless the call was a   *)
(* forced refresh or has just stored a token whose expires_in is 120 or     *)
(* less.                                                                    *)
C16_ReturnedTokenOutlivesTheMargin ==
    [][ \A t \in Threads :
          (tpc[t] # "done" /\ tpc'[t] = "done" /\ out'[t].kind = "returned")
          => /\ out'[t].token = cached_token'
             /\ out'[t].token # NoToken
             /\ \/ force_refresh[t]
                \/ /\ tpc[t] = "return_fresh"
                   /\ ClaimedLifetime(token_data[t].expires_in) <= 120
                \/ token_expires_at' >= now[t] + 120 ]_vars

C16_Witness ==
    /\ tpc[Caller] = "done"
    /\ ~force_refresh[Caller]
    /\ out[Caller].kind = "returned"
    /\ ncalls = 3
    /\ clock = 20
    /\ nexchanges = 2
    /\ issued = <<130, 150>>
    /\ out[Caller].token = 2

---------------------------------------------------------------------------
(* C17: when one or more of TENANT_ID, CLIENT_ID, CLIENT_SECRET are not set *)
(* in the environment, every call of get_access_token, forced or not, ends  *)
(* with the configuration error that names exactly the secrets that are not *)
(* set and no others; no exchange is made and nothing is cached.            *)
C17_MissingSecretsAreNamedExactly ==
    env # Secrets =>
        /\ nexchanges = 0
        /\ cached_token = NoToken
        /\ \A t \in Threads :
              /\ tpc[t] \in {"idle", "check_token", "refresh", "done"}
              /\ tpc[t] = "done" =>
                    /\ out[t].kind = "raised"
                    /\ out[t].error = "ValueError:missing_env"
                    /\ out[t].missing = {x \in Secrets : x \notin env}
                    /\ out[t].missing # {}

C17_Witness ==
    /\ tpc[Caller] = "done"
    /\ ncalls = 2
    /\ force_refresh[Caller]
    /\ env = {"TENANT_ID", "CLIENT_SECRET"}
    /\ out[Caller].missing = {"CLIENT_ID"}

---------------------------------------------------------------------------
---------------------------------------------------------------------------
(* C19: callers running concurrently.  A caller in the cache test is never  *)
(* held up by another caller: its next step can be taken in every state,    *)
(* whatever the others are doing.  Its steps make no exchange and do not     *)
(* write the cache; when the test finds a token and an expiry more than     *)
(* 120 s after the call time, the call goes on to return, and it ends       *)
(* returning a token, also while another caller's exchange is in flight.    *)
C19_ValidCacheNeverWaitsForARefresh ==
    /\ [](\A t \in Threads :
            /\ tpc[t] = "check_token" => ENABLED CheckToken(t)
            /\ tpc[t] = "check_expiry" => ENABLED CheckExpiry(t)
            /\ tpc[t] = "return_cached" =>
                  /\ ENABLED ReturnCached(t)
                  /\ ~force_refresh[t]
                  /\ seen_token[t] # NoToken
                  /\ seen_expiry[t] - now[t] > 120)
    /\ [][ \A t \in Threads :
             /\ ( /\ tpc[t] \in {"check_token", "check_expiry", "return_cached"}
                  /\ tpc'[t] # tpc[t] )
                => /\ nexchanges' = nexchanges
                   /\ cached_token' = cached_token
                   /\ token_expires_at' = token_expires_at
             /\ ( /\ tpc[t] = "check_expiry"
                  /\ tpc'[t] # tpc[t]
                  /\ seen_token[t] # NoToken
                  /\ token_expires_at - now[t] > 120 )
                => tpc'[t] = "return_cached"
             /\ (tpc[t] = "return_cached" /\ tpc'[t] # tpc[t])
                => /\ tpc'[t] = "done"
                   /\ out'[t].kind = "returned"
                   /\ out'[t].token # NoToken ]_vars

C19_Witness ==
    \E t \in Threads : \E u \in Threads :
        /\ tpc[t] = "return_cached"
        /\ now[t] = 10
        /\ tpc[u] = "exchange"
        /\ now[u] = 0
        /\ force_refresh[u]
        /\ cached_token # NoToken

---------------------------------------------------------------------------
(* C20, one caller.  The parts common to the claim as stated and as         *)
(* amended: a call is on the refresh path only if it is forced, the cache   *)
(* is empty or the cached expiry is 120 s or less after the call time (120  *)
(* exactly included), and it returns from the cache only in the opposite    *)
(* case; the steps of the cache test and those after the answer make no     *)
(* exchange, and the answer to the POST counts for exactly one.             *)
MustRefresh(t) ==
    \/ force_refresh[t]
    \/ cached_token = NoToken
    \/ token_expires_at - now[t] <= 120

RefreshOnlyWhenStale ==
    \A t \in Threads :
        /\ tpc[t] \in {"refresh", "exchange"} => MustRefresh(t)
        /\ tpc[t] = "return_cached" => ~MustRefresh(t)

OneExchangePerPost(t) ==
    /\ ( /\ tpc[t] \in {"check_token", "check_expiry", "return_cached", "refresh",
                        "store_token", "store_expiry", "return_fresh"}
         /\ tpc'[t] # tpc[t] )
       => /\ nexchanges' = nexchanges
          /\ tpc[t] # "refresh" => tpc'[t] # "exchange"
    /\ (tpc[t] \in {"check_token", "check_expiry"} /\ tpc'[t] # tpc[t] /\ MustRefresh(t))
       => tpc'[t] \in {"check_expiry", "refresh"}
    /\ (tpc[t] = "exchange" /\ tpc'[t] # tpc[t])
       => /\ nexchanges' = nexchanges + 1
          /\ tpc'[t] \in {"store_token", "done"}

(* C20 as stated: every call that is forced or finds the cache empty or     *)
(* stale performs exactly one exchange, and no other call performs one.     *)
C20_StaleOrForcedCallExchangesOnce ==
    /\ []RefreshOnlyWhenStale
    /\ [][ \A t \in Threads :
             /\ OneExchangePerPost(t)
             /\ (tpc[t] = "refresh" /\ tpc'[t] # tpc[t]) => tpc'[t] = "exchange" ]_vars

(* C20 amended: when the three secrets are set, every call that is forced   *)
(* or finds the cache empty or stale performs exactly one exchange; when a  *)
(* secret is missing such a call raises the configuration error without     *)
(* any exchange; no other call performs an exchange.                        *)
C20_ConfiguredStaleOrForcedCallExchangesOnce ==
    /\ []RefreshOnlyWhenStale
    /\ [][ \A t \in Threads :
             /\ OneExchangePerPost(t)
             /\ (tpc[t] = "refresh" /\ tpc'[t] # tpc[t] /\ env = Secrets)
                => tpc'[t] = "exchange"
             /\ (tpc[t] = "refresh" /\ tpc'[t] # tpc[t] /\ env # Secrets)
                => /\ tpc'[t] = "done"
                   /\ out'[t].error = "ValueError:missing_env" ]_vars

C20_Witness ==
    /\ tpc[Caller] = "store_token"
    /\ ~force_refresh[Caller]
    /\ now[Caller] = 10
    /\ cached_token = 1
    /\ token_expires_at = 130
    /\ ncalls = 2
    /\ nexchanges = 2

---------------------------------------------------------------------------
(* C21: whatever max_retries the client was constructed with and whatever   *)
(* the transport answers, a call that has ended has returned a response or  *)
(* raised requests.HTTPError; no exception of another type reaches the      *)
(* caller.                                                                  *)
C21_CallReturnsOrRaisesHTTPError ==
    pc \in Terminal =>
        \/ result.kind = "returned"
        \/ result.kind = "raised" /\ result.type = "HTTPError"

---------------------------------------------------------------------------
(* C29: for 0 <= N <= max_retries, N failed attempts, each a retryable      *)
(* status or an exception of the transport, in any order, followed by a 2xx *)
(* response make the call return that response after N + 1 requests: the    *)
(* exception recorded by an earlier attempt has no part in the outcome.     *)
C29_SuccessAfterFailuresReturns ==
    LET n == Len(answers) IN
    ( /\ n >= 1
      /\ n - 1 <= max_retries
      /\ \A i \in 1..(n - 1) : answers[i] = "retryable" \/ IsNetworkFailure(answers[i])
      /\ answers[n] = "success"
      /\ Is2xx(response.status) )
    => /\ pc = "returned"
       /\ result = Returned(response)
       /\ requests = n
       /\ Len(sleeps) = n - 1

C29_Witness ==
    /\ pc = "returned"
    /\ max_retries = 2
    /\ answers = <<"Timeout", "retryable", "success">>
    /\ last_exception = Some([type |-> "Timeout", status |-> NoStatus])
    /\ result.response.status = 200

---------------------------------------------------------------------------
(* C27: one caller.  A call of get_access_token that raised left the cache  *)
(* as it found it: since the cache only changes by a successful call, which *)
(* stores the token and the expiry of its exchange together, after a call   *)
(* that raised the cache is empty or holds the token and the expiry of one  *)
(* exchange.                                                                *)
C27_FailedCallLeavesCacheUntouched ==
    \A t \in Threads :
        (tpc[t] = "done" /\ out[t].kind = "raised") => CacheFromOneExchange

---------------------------------------------------------------------------
(* C28: one caller.  A token that came with an expires_in of 120 s or less  *)
(* is never served from the cache: no call, at whatever time it is made,    *)
(* passes the cache test while such a token is cached, so every later call  *)
(* without force_refresh takes the refresh path; and no call returns such a *)
(* token except the call whose exchange obtained it.                        *)
ShortLived(k) ==
    /\ k \in 1..Len(lifetimes)
    /\ lifetimes[k] # NoExpiry
    /\ lifetimes[k] <= 120

C28_ShortLivedTokenIsNeverServedFromCache ==
    /\ [](\A t \in Threads :
            /\ tpc[t] = "return_cached" => ~ShortLived(cached_token)
            /\ (tpc[t] = "check_expiry" /\ ShortLived(cached_token)) =>
                  ~(now[t] < token_expires_at - 120))
    /\ [][ \A t \in Threads :
             ( /\ tpc[t] # "done"
               /\ tpc'[t] = "done"
               /\ out'[t].kind = "returned"
               /\ ShortLived(out'[t].token) )
             => /\ tpc[t] = "return_fresh"
                /\ token_data[t].access_token = out'[t].token ]_vars

C28_Witness ==
    /\ tpc[Caller] = "exchange"
    /\ ~force_refresh[Caller]
    /\ now[Caller] = 10
    /\ cached_token = 1
    /\ lifetimes = <<120>>
    /\ token_expires_at = 120
    /\ nexchanges = 1

---------------------------------------------------------------------------
(* C22: a constructor call given an empty base endpoint or an empty token   *)
(* raised ValueError and left no client, and no request is sent while the   *)
(* client's base endpoint or its token is empty.                            *)
C22_NoRequestWithEmptyEndpointOrToken ==
    /\ (ctor.state # "none" /\ (ctor.base_url = <<>> \/ ctor.access_token = <<>>))
          => (ctor.state = "raised" /\ pc = "idle" /\ requests = 0)
    /\ requests > 0 => (base_url # <<>> /\ access_token # <<>>)

(* a path is an absolute URL when it starts with a scheme *)
IsAbsoluteUrl(p) ==
    \/ StartsWith(p, <<"h", "t", "t", "p", ":", "/", "/">>)
    \/ StartsWith(p, <<"h", "t", "t", "p", "s", ":", "/", "/">>)

RECURSIVE LStripSlashes(_)
LStripSlashes(p) ==
    IF Len(p) > 0 /\ p[1] = "/" THEN LStripSlashes(Tail(p)) ELSE p

(* a call was made on a constructed client *)
RequestBuilt == ctor.state = "ok" /\ pc # "idle"

(* C23: the URL of a call is the path itself when the path is an absolute   *)
(* URL, and otherwise the base endpoint without its trailing slashes, one   *)
(* "/", and the path without its leading slashes.                           *)
C23_UrlIsVerbatimOrJoinedByOneSlash ==
    RequestBuilt =>
        url = IF IsAbsoluteUrl(path) THEN path
              ELSE RStripSlashes(ctor.base_url) \o <<"/">> \o LStripSlashes(path)

CallerSupplied(n) == extra.some /\ n \in DOMAIN extra.v

(* C24: every request of every attempt carries the caller's extra headers   *)
(* with the caller's values, and Authorization = "Bearer <token>" and a     *)
(* JSON Content-Type unless the caller supplied a header of that name, and  *)
(* no other header.                                                         *)
C24_EveryRequestCarriesTheHeaders ==
    [][requests' = requests + 1 =>
          /\ DOMAIN headers = {"Authorization", "Content-Type"}
                                \cup (IF extra.some THEN DOMAIN extra.v ELSE {})
          /\ \A n \in DOMAIN headers :
                headers[n] = IF CallerSupplied(n) THEN extra.v[n]
                             ELSE IF n = "Authorization"
                                  THEN <<"Bearer ">> \o ctor.access_token
                             ELSE <<"application/json">>]_vars

C24_Witness ==
    /\ requests = 2
    /\ attempt = 1
    /\ extra = Some(Update(OneHeader("Content-Type", <<"text/plain">>),
                           OneHeader("X-Trace", <<"1">>)))
    /\ headers["Authorization"] = <<"Bearer ", "t">>
    /\ headers["Content-Type"] = <<"text/plain">>
    /\ headers["X-Trace"] = <<"1">>

(* C25: once a client is constructed, its base endpoint, token, max_retries *)
(* and timeout stay what the constructor made of its arguments, whatever    *)
(* calls are made and however they end, and every request that does not     *)
(* carry a caller's Authorization header carries the constructor's token.   *)
C25_CallsLeaveTheConfigurationAlone ==
    /\ [](ctor.state = "ok" =>
             /\ base_url = RStripSlashes(ctor.base_url)
             /\ access_token = ctor.access_token
             /\ max_retries = ctor.max_retries
             /\ timeout = ctor.timeout)
    /\ [][ctor.state = "ok" =>
             /\ ctor' = ctor
             /\ (requests' = requests + 1 /\ ~CallerSupplied("Authorization"))
                   => headers["Authorization"] = <<"Bearer ">> \o ctor.access_token]_vars

C25_Witness ==
    /\ ctor.state = "ok"
    /\ previous.ended = "raised"
    /\ pc = "raised"
    /\ requests = 2
    /\ response.bound /\ response.status = 401
    /\ extra = None
    /\ base_url = <<"b">>
    /\ ctor.base_url = <<"b", "/">>
    /\ access_token = <<"t">>
    /\ headers["Authorization"] = <<"Bearer ", "t">>

(* C26: every call starts at attempt index 0 with a backoff of 2.0 s and no *)
(* recorded failure, also when an earlier call on the same client used up   *)
(* its retries or raised.                                                   *)
C26_EveryCallStartsFresh ==
    /\ []((pc = "sending" /\ requests = 0) =>
             (attempt = 0 /\ backoff = 2 * Scale /\ last_exception = None))
    /\ [][(pc \in {"idle", "returned", "raised"} /\ pc' \notin {"idle", "returned", "raised"})
             => (attempt' = 0 /\ backoff' = 2 * Scale /\ last_exception' = None
                 /\ requests' = 0 /\ sleeps' = <<>>)]_vars

C26_Witness ==
    /\ max_retries = 2
    /\ previous.ended = "raised"
    /\ previous.attempt = 2
    /\ pc = "sending"
    /\ requests = 0
    /\ attempt = 0
    /\ backoff = 2 * Scale
    /\ last_exception = None

(* safe_api_call wrapped a client method whose call raised HTTPError *)
ClientRaisedHTTPError ==
    /\ wrapped = "client"
    /\ spc = "done"
    /\ invocations > 0
    /\ result.kind = "raised"
    /\ result.type = "HTTPError"

(* C30: when safe_api_call wraps a client method, an HTTP failure raised by *)
(* the client surfaces as PurviewAPIError: with the status as status_code   *)
(* after one invocation for 400, 401, 403 and 404, and after at most        *)
(* max_retries invocations for 429, 500, 502, 503 and 504.                  *)
C30_ClientFailuresSurfaceAsPurviewAPIError ==
    ClientRaisedHTTPError =>
        /\ sa_out.kind = "raised"
        /\ sa_out.type = "PurviewAPIError"
        /\ result.status \in {400, 401, 403, 404} =>
              (invocations = 1 /\ sa_out.status_code = Some(result.status))
        /\ result.status \in {429, 500, 502, 503, 504} =>
              invocations <= sa_max_retries

(* C3: with callers running get_access_token concurrently (and token        *)
(* responses that are all well formed), the token and the expiry a caller   *)
(* reads in its freshness check were written by one exchange, and once all  *)
(* calls have finished the cache holds the token and expiry of one          *)
(* exchange.                                                                *)
C3_CacheIsSwappedAtomically ==
    ResponsesWellFormed =>
        /\ \A t \in Threads :
              seen_expiry[t] # NotRead =>
                  PairFromOneExchange(seen_token[t], seen_expiry[t])
        /\ AllCallsFinished => CacheFromOneExchange

---------------------------------------------------------------------------
(* C4: when callers that all started before any of them finished call       *)
(* get_access_token() on the empty cache, every token returned to them is   *)
(* the token the cache holds once they have all finished.                   *)
C4_ConcurrentCallersGetOneToken ==
    ( /\ AllCallsFinished
      /\ ~late_entry
      /\ ResponsesWellFormed
      /\ \A t \in Threads : ~force_refresh[t] )
    => \A t \in Threads :
          out[t].kind = "returned" => out[t].token = cached_token

=============================================================================
